---- MODULE Spec2Model ----
(***************************************************************************)
(* shellAI: the response-to-command pipeline of src/shellai.py (and of the *)
(* older single-file variant src/shellAI.py).                              *)
(*                                                                         *)
(* Text is a sequence of one-character strings, so that the regular        *)
(* expression search, strip, split and the character substitution are      *)
(* computed character by character as Python computes them.                *)
(***************************************************************************)
EXTENDS Naturals, Sequences, FiniteSets

VARIABLES
    pc,         \* position of the run
    response,   \* the model's reply, the text handed to the extractor
    command,    \* the extracted command, the text handed to the sanitizer
    result,     \* what the function under study produced
    args,       \* the parsed command line
    env,        \* credential variable, prompt prefix and captured input
    keys,       \* put_command's local command: the text to be typed
    sent,       \* the tmux send-keys calls and sleeps made so far, in order
    out,        \* what has been shown on the terminal
    status,     \* the process exit status, "running" before the exit
    failure     \* the first failure met in the run, "none" before any

vars == <<pc, response, command, result, args, env, keys, sent, out, status,
          failure>>

run == <<args, env, keys, sent, out, status, failure>>

----------------------------------------------------------------------------
(* Characters                                                              *)

\* the backtick: a TLA+ string cannot hold one, so it has a name
BT == "BACKTICK"
NL == "\n"
BS == "\\"
DQ == "\""
DOLLAR == "$"

FENCE == <<BT, BT, BT>>
TAG_BASH == <<"b", "a", "s", "h">>
TAG_SHELL == <<"s", "h", "e", "l", "l">>

\* str.strip() with no argument removes these (of the characters used here)
Whitespace == {" ", "\n", "\t", "\r", "\f"}

\* str.splitlines() breaks lines at these (of the characters used here)
LineBoundary == {"\n", "\r", "\f"}

Last(s) == s[Len(s)]

----------------------------------------------------------------------------
(* Python string methods                                                   *)

RECURSIVE lstrip(_)
lstrip(s) ==
    IF s # <<>> /\ s[1] \in Whitespace THEN lstrip(Tail(s)) ELSE s

RECURSIVE rstrip(_)
rstrip(s) ==
    IF s # <<>> /\ s[Len(s)] \in Whitespace
    THEN rstrip(SubSeq(s, 1, Len(s) - 1))
    ELSE s

strip(s) == rstrip(lstrip(s))

\* s.split("\n"): never an empty list
RECURSIVE splitAcc(_, _, _)
splitAcc(s, i, cur) ==
    IF i > Len(s) THEN <<cur>>
    ELSE IF s[i] = NL THEN <<cur>> \o splitAcc(s, i + 1, <<>>)
    ELSE splitAcc(s, i + 1, Append(cur, s[i]))

split(s) == splitAcc(s, 1, <<>>)

\* s.splitlines(): no trailing empty line, and [] for the empty string
RECURSIVE splitlinesAcc(_, _, _)
splitlinesAcc(s, i, cur) ==
    IF i > Len(s) THEN (IF cur = <<>> THEN <<>> ELSE <<cur>>)
    ELSE IF s[i] \in LineBoundary
    THEN LET step == IF s[i] = "\r" /\ i < Len(s) /\ s[i + 1] = NL
                     THEN 2 ELSE 1
         IN  <<cur>> \o splitlinesAcc(s, i + step, <<>>)
    ELSE splitlinesAcc(s, i + 1, Append(cur, s[i]))

splitlines(s) == splitlinesAcc(s, 1, <<>>)

\* sep.join(parts)
RECURSIVE join(_, _)
join(sep, parts) ==
    IF parts = <<>> THEN <<>>
    ELSE IF Len(parts) = 1 THEN parts[1]
    ELSE parts[1] \o sep \o join(sep, Tail(parts))

----------------------------------------------------------------------------
(* Regular expression search                                               *)

\* whether lit occurs in s at index i
At(s, i, lit) ==
    /\ i >= 1
    /\ i + Len(lit) - 1 <= Len(s)
    /\ SubSeq(s, i, i + Len(lit) - 1) = lit

\* The opening fence, FENCE (?:bash|shell)? \n, matched at i: the index after the newline, or 0.
\* The optional tag is tried as bash, then shell, then absent.
OpenFence(s, i) ==
    IF ~At(s, i, FENCE) THEN 0
    ELSE IF At(s, i + 3, TAG_BASH \o <<NL>>) THEN i + 3 + 4 + 1
    ELSE IF At(s, i + 3, TAG_SHELL \o <<NL>>) THEN i + 3 + 5 + 1
    ELSE IF At(s, i + 3, <<NL>>) THEN i + 3 + 1
    ELSE 0

\* (.+?) followed by lit under re.DOTALL, the group starting at c: the least
\* index j > c where lit occurs (the group is s[c..j-1], at least one
\* character), or 0
GroupEnd(s, c, lit) ==
    LET ends == {j \in (c + 1)..Len(s) : At(s, j, lit)}
    IN  IF c > Len(s) \/ ends = {} THEN 0
        ELSE CHOOSE j \in ends : \A k \in ends : j <= k

\* re.findall(FENCE (?:bash|shell)? \n (.+?) close, s, re.DOTALL) from index
\* i on: the groups of the non-overlapping matches, left to right
RECURSIVE findallFrom(_, _, _)
findallFrom(s, i, close) ==
    IF i > Len(s) THEN <<>>
    ELSE LET c == OpenFence(s, i)
             j == IF c = 0 THEN 0 ELSE GroupEnd(s, c, close)
         IN  IF j = 0 THEN findallFrom(s, i + 1, close)
             ELSE <<SubSeq(s, c, j - 1)>> \o findallFrom(s, j + Len(close), close)

findall(s, close) == findallFrom(s, 1, close)

----------------------------------------------------------------------------
(* Command Extractor                                                       *)

Return(v) == [exc |-> "none", value |-> v]
Raise(e) == [exc |-> e, value |-> <<>>]

\* src/shellai.py extract_command
extract_command(resp) ==
    LET code_blocks == findall(resp, <<NL>>)
    IN  IF code_blocks # <<>>
        THEN Return(Last(split(strip(Last(code_blocks)))))
        ELSE LET lines == splitlines(strip(resp))
             IN  IF lines = <<>> THEN Raise("IndexError")
                 ELSE Return(Last(lines))

\* src/shellAI.py, the extraction at module level
legacy_extract(resp) ==
    LET code_blocks == findall(resp, FENCE)
    IN  IF code_blocks # <<>>
        THEN Return(Last(split(strip(Last(code_blocks)))))
        ELSE LET resp_lines == splitlines(strip(resp))
             IN  IF resp_lines = <<>> THEN Raise("IndexError")
                 ELSE Return(Last(resp_lines))

----------------------------------------------------------------------------
(* Command Sanitizer                                                       *)

\* the table without its backslash entry
subs_get_no_backslash(x) ==
    CASE x = DQ -> <<BS, DQ>>
      [] x = NL -> <<" ">>
      [] x = DOLLAR -> <<BS, DOLLAR>>
      [] x = BT -> <<BS, BT>>
      [] OTHER -> <<x>>

\* src/shellai.py clean_command: subs.get(x, x) for one character
subs_get(x) ==
    CASE x = DQ -> <<BS, DQ>>
      [] x = NL -> <<" ">>
      [] x = DOLLAR -> <<BS, DOLLAR>>
      [] x = BT -> <<BS, BT>>
      [] x = BS -> <<BS, BS>>
      [] OTHER -> <<x>>

RECURSIVE clean_command(_)
clean_command(c) ==
    IF c = <<>> THEN <<>> ELSE subs_get(c[1]) \o clean_command(Tail(c))

\* src/shellAI.py clean_command: the newline is removed
legacy_subs_get(x) ==
    CASE x = DQ -> <<BS, DQ>>
      [] x = NL -> <<>>
      [] x = DOLLAR -> <<BS, DOLLAR>>
      [] x = BT -> <<BS, BT>>
      [] x = BS -> <<BS, BS>>
      [] OTHER -> <<x>>

RECURSIVE legacy_clean_command(_)
legacy_clean_command(c) ==
    IF c = <<>> THEN <<>>
    ELSE legacy_subs_get(c[1]) \o legacy_clean_command(Tail(c))

----------------------------------------------------------------------------
(* Inputs                                                                  *)

MaxLines == 4
MaxCmdLen == 4

\* the tags written in other letter cases
TAG_BASH_UPPER == <<"B", "A", "S", "H">>
TAG_SHELL_CAPITAL == <<"S", "h", "e", "l", "l">>

LineSet ==
    { <<>>, <<"a">>, <<"b">>, <<" ", "c">>, <<" ">>,
      FENCE, FENCE \o TAG_BASH, FENCE \o TAG_SHELL,
      FENCE \o TAG_BASH_UPPER, FENCE \o TAG_SHELL_CAPITAL }

Responses ==
    { join(<<NL>>, ls) \o tail :
        ls \in UNION {[1..k -> LineSet] : k \in 0..MaxLines},
        tail \in {<<>>, <<NL>>} }

CmdAlphabet == {"a", " ", DQ, NL, DOLLAR, BT, BS}

Commands == UNION {[1..k -> CmdAlphabet] : k \in 0..MaxCmdLen}

NoResult == [exc |-> "unset", value |-> <<>>]

----------------------------------------------------------------------------
(* The extractor applied to a response                                     *)

\* no invocation is under way while a function is studied alone
NoRun ==
    /\ args = [variant |-> "none"]
    /\ env = [key |-> FALSE]
    /\ keys = <<>>
    /\ sent = <<>>
    /\ out = {}
    /\ status = "running"
    /\ failure = "none"

InitExtract ==
    /\ pc = "ready"
    /\ response \in Responses
    /\ command = <<>>
    /\ result = NoResult
    /\ NoRun

Extract ==
    /\ pc = "ready"
    /\ result' = extract_command(response)
    /\ pc' = "extract_command"
    /\ UNCHANGED <<response, command, run>>

LegacyExtract ==
    /\ pc = "ready"
    /\ result' = legacy_extract(response)
    /\ pc' = "legacy_extract"
    /\ UNCHANGED <<response, command, run>>

NextExtract == Extract \/ LegacyExtract

SpecExtract == InitExtract /\ [][NextExtract]_vars

----------------------------------------------------------------------------
(* The sanitizer applied to a command                                      *)

InitClean ==
    /\ pc = "ready"
    /\ response = <<>>
    /\ command \in Commands
    /\ result = NoResult
    /\ NoRun

Clean ==
    /\ pc = "ready"
    /\ result' = Return(clean_command(command))
    /\ pc' = "clean_command"
    /\ UNCHANGED <<response, command, run>>

LegacyClean ==
    /\ pc = "ready"
    /\ result' = Return(legacy_clean_command(command))
    /\ pc' = "legacy_clean_command"
    /\ UNCHANGED <<response, command, run>>

NextClean == Clean \/ LegacyClean

SpecClean == InitClean /\ [][NextClean]_vars

----------------------------------------------------------------------------
(* One invocation of src/shellai.py, from the point where the arguments    *)
(* are parsed and the input (stdin or the captured pane) has been read     *)

\* the pane shellai was started in (tmux display-message -p '#S:#I.#P')
default_tmux_target == "self"

Panes == {default_tmux_target, "other"}

\* one provider for each wrapper of the providers table; xai, together and
\* openai share get_response_default with openrouter
Providers == {"openrouter", "gemini", "anthropic"}

\* " ".join(sys.argv[1:]) as one unit of text: no function looks inside it
ARGV == "ARGV"

SHELLAI == <<"s", "h", "e", "l", "l", "a", "i">>

\* the replies a model may give
ModelReplies ==
    { <<>>,
      <<"x", NL>> \o FENCE \o TAG_BASH \o <<NL, "l", "s", NL>> \o FENCE \o <<NL>>,
      <<"x", NL, "d", "f">>,
      <<"e", " ", DQ, DOLLAR, "x", DQ>>,
      <<"a", ")">>,
      FENCE \o <<NL, " ", NL>> }

\* what requests.post may come back with
HttpReplies ==
    { [exc |-> "none", status_code |-> st, has_content |-> c] :
        st \in {200, 500}, c \in BOOLEAN }
    \cup { [exc |-> "ConnectionError", status_code |-> 0, has_content |-> FALSE] }

\* what a vendor SDK call may come back with
SdkOutcomes == {"ok", "ModuleNotFoundError", "error", "not_text"}

ShellaiArgs ==
    [ variant : {"shellai"}, auto : BOOLEAN, recursive : BOOLEAN,
      quiet : BOOLEAN, debug : BOOLEAN, target : Panes, log : BOOLEAN,
      log_commands : BOOLEAN, provider : Providers ]

Environments ==
    [ key : BOOLEAN, prefix_input : {<<>>, <<"p">>},
      input_string : {<<>>, <<"i">>} ]

\* the outcome of a call: it returns, it calls quit(), or it raises
Returns(v) == [kind |-> "return", value |-> v, shown |-> "", failure |-> "none"]
Quits(msg, why) == [kind |-> "quit", value |-> <<>>, shown |-> msg, failure |-> why]
Raises(why) == [kind |-> "raise", value |-> <<>>, shown |-> "Traceback", failure |-> why]

\* quit() is given no argument: SystemExit(None), exit status 0
quit_status == "0"

\* an exception nothing catches: the traceback is shown, exit status 1
uncaught_status == "1"

\* a wrapper that hands the error body back instead of calling quit()
get_response_default_returns_body(reply, text) ==
    IF reply.exc # "none" THEN Raises("transport_error")
    ELSE IF reply.status_code = 200
    THEN IF reply.has_content THEN Returns(text)
         ELSE Quits("unexpected output", "malformed_response")
    ELSE [kind |-> "return", value |-> text, shown |-> "",
          failure |-> "http_error"]

get_response_default(reply, text) ==
    IF reply.exc # "none" THEN Raises("transport_error")
    ELSE IF reply.status_code = 200
    THEN IF reply.has_content THEN Returns(text)
         ELSE Quits("unexpected output", "malformed_response")
    ELSE Quits("Error: status_code", "http_error")

get_response_gemini(sdk, text) ==
    IF sdk = "ModuleNotFoundError"
    THEN Quits("run pip install google-generativeai", "sdk_missing")
    ELSE IF sdk = "error" THEN Raises("sdk_error")
    ELSE Returns(text)

get_response_anthropic(sdk, text) ==
    IF sdk = "ModuleNotFoundError"
    THEN Quits("run pip install anthropic", "sdk_missing")
    ELSE IF sdk = "error" THEN Raises("sdk_error")
    ELSE IF sdk = "not_text" THEN Raises("sdk_error")
    ELSE Returns(text)

\* the diagnostic labels and the two lengths are written as one character
\* each (S, P, F, T); the code block is as in the source
get_response_debug(prompt, prefix) ==
    LET lines == splitlines(prompt)
    IN  IF Len(lines) <= 1 THEN Raises("debug_error")
        ELSE Returns(<<"S", "P", NL, "F">> \o lines[1] \o <<NL, "T", NL>>
                     \o FENCE \o TAG_BASH \o <<NL, " ", "e", "c", "h", "o", " ",
                                             DQ, DOLLAR, "(">>
                     \o prefix \o <<")", DQ, NL>> \o FENCE \o <<NL>>)

\* providers[args.provider]["wrapper"]
wrapper(provider, reply, sdk, text) ==
    CASE provider = "gemini" -> get_response_gemini(sdk, text)
      [] provider = "anthropic" -> get_response_anthropic(sdk, text)
      [] OTHER -> get_response_default(reply, text)

\* whether re accepts the text as a pattern: of the characters in the
\* modelled replies only the parentheses can make it invalid
RECURSIVE balanced(_, _)
balanced(p, depth) ==
    IF p = <<>> THEN depth = 0
    ELSE IF p[1] = "(" THEN balanced(Tail(p), depth + 1)
    ELSE IF p[1] = ")" THEN depth > 0 /\ balanced(Tail(p), depth - 1)
    ELSE balanced(Tail(p), depth)

re_compiles(p) == balanced(p, 0)

\* ENTER whatever --auto says
enter_always(auto) == "ENTER"

\* enter = "ENTER" if args.auto else ""
enter(auto) == IF auto THEN "ENTER" ELSE ""

\* subprocess.run of tmux send-keys: keys typed into a pane, then ENTER if
\* given; ok is whether tmux succeeded
SendKeys(pane, text, ent, ok) ==
    [kind |-> "send-keys", pane |-> pane, text |-> text, enter |-> ent, ok |-> ok]

Sleep == [kind |-> "sleep", pane |-> "", text |-> <<>>, enter |-> "", ok |-> TRUE]

\* tmux writes its own error to the terminal: subprocess.run does not
\* capture it and, without check=True, does not raise
Shown(ok) == IF ok THEN out ELSE out \cup {"tmux error"}

\* src/shellAI.py has no target, log or provider option: it types into the
\* pane it was started in and asks Gemini; quiet stands for its --terse
LegacyArgs ==
    [ variant : {"shellAI"}, auto : BOOLEAN, recursive : BOOLEAN,
      quiet : BOOLEAN, debug : BOOLEAN, target : {default_tmux_target},
      log : {FALSE}, log_commands : {FALSE}, provider : {"gemini"} ]

\* src/shellAI.py: the reply used under --debug
LegacyDebugReply ==
    <<"t", "e", "s", "t", " ", "m", "s", "g", " ", NL,
      " ", "e", "c", "h", "o", " ", "t", "e", "s", "t", " ", NL,
      " ", "e", "c", "h", "o", " ", "t", "e", "s", "t", " ", NL>>

Init ==
    /\ pc = "get_key"
    /\ args \in ShellaiArgs \cup LegacyArgs
    /\ env \in Environments
    /\ response = <<>>
    /\ command = <<>>
    /\ result = NoResult
    /\ keys = <<>>
    /\ sent = <<>>
    /\ out = {}
    /\ status = "running"
    /\ failure = "none"

\* prefix_input + input_string != ""
HasInput == env.prefix_input \o env.input_string # <<>>

\* the call returned, called quit() or raised
Outcome(r, next) ==
    /\ pc' = IF r.kind = "return" THEN next ELSE "exited"
    /\ status' = CASE r.kind = "return" -> status
                   [] r.kind = "quit" -> quit_status
                   [] OTHER -> uncaught_status
    /\ out' = IF r.kind = "return" THEN out ELSE out \cup {r.shown}
    /\ failure' = IF failure = "none" THEN r.failure ELSE failure

\* the end of the script is reached
Done ==
    /\ pc' = "done"
    /\ status' = "0"

\* __main__: api_key = os.environ[provider["api_key"]]
GetKey ==
    /\ pc = "get_key"
    /\ args.variant = "shellai"
    /\ Outcome(IF env.key THEN Returns(<<>>)
               ELSE Quits("need api key environment variable",
                          "missing_credential"),
               "build_prompt")
    /\ UNCHANGED <<response, command, result, args, env, keys, sent>>

\* __main__: the prompt is built and main is called, or "no input" is shown
BuildPrompt ==
    /\ pc = "build_prompt"
    /\ IF HasInput
       THEN /\ pc' = "get_response"
            /\ UNCHANGED <<out, status>>
       ELSE /\ out' = out \cup {"no input"}
            /\ Done
    /\ UNCHANGED <<response, command, result, args, env, keys, sent, failure>>

\* get_response up to the log: the debug reply or the provider's wrapper
GetResponse ==
    /\ pc = "get_response"
    /\ \E text \in ModelReplies, reply \in HttpReplies, sdk \in SdkOutcomes :
         LET r == IF args.debug
                  THEN get_response_debug(
                           env.prefix_input \o <<":", NL>> \o env.input_string,
                           env.prefix_input)
                  ELSE wrapper(args.provider, reply, sdk, text)
         IN  /\ Outcome(r, "log")
             /\ response' = r.value
    /\ UNCHANGED <<command, result, args, env, keys, sent>>

\* get_response: with open(args.log, 'a') as log: log.write(response)
LogResponse ==
    /\ pc = "log"
    /\ \E written \in BOOLEAN :
         Outcome(IF args.log /\ ~written THEN Raises("log_error")
                 ELSE Returns(<<>>),
                 "extract")
    /\ UNCHANGED <<response, command, result, args, env, keys, sent>>

\* main: command = extract_command(response)
ExtractCommand ==
    /\ pc = "extract"
    /\ result' = extract_command(response)
    /\ command' = result'.value
    /\ Outcome(IF result'.exc = "none" THEN Returns(<<>>)
               ELSE Raises("extract_error"),
               "display")
    /\ UNCHANGED <<response, args, env, keys, sent>>

\* main: the explanation is shown unless quiet (the command is used as a
\* pattern), then put_command is called if the command is not empty
Display ==
    /\ pc = "display"
    /\ IF ~args.quiet /\ ~re_compiles(command)
       THEN Outcome(Raises("pattern_error"), "put_command")
       ELSE /\ out' = IF args.quiet THEN out ELSE out \cup {"explanation"}
            /\ IF command # <<>>
               THEN pc' = "put_command" /\ status' = status
               ELSE Done
            /\ failure' = failure
    /\ UNCHANGED <<response, command, result, args, env, keys, sent>>

\* put_command: the command is cleaned and, if asked, logged
PutCommand ==
    /\ pc = "put_command"
    /\ keys' = clean_command(command)
    /\ \E written \in BOOLEAN :
         Outcome(IF args.log_commands /\ ~written
                 THEN Raises("log_commands_error")
                 ELSE Returns(<<>>),
                 "put_recursive")
    /\ UNCHANGED <<response, command, result, args, env, sent>>

\* the repeat invocation appended to the command whatever the target is
PutRecursive_always_appends ==
    /\ pc = "put_recursive"
    /\ keys' = IF args.recursive
               THEN keys \o <<";">> \o SHELLAI \o <<" ", ARGV>>
               ELSE keys
    /\ pc' = "put_send"
    /\ UNCHANGED <<response, command, result, args, env, sent, out, status,
                   failure>>

\* put_command: the repeat invocation
PutRecursive ==
    /\ pc = "put_recursive"
    /\ IF args.recursive
       THEN IF args.target = default_tmux_target
            THEN /\ keys' = keys \o <<";">> \o SHELLAI \o <<" ", ARGV>>
                 /\ UNCHANGED <<sent, out>>
            ELSE /\ \E ok \in BOOLEAN :
                      /\ sent' = Append(sent,
                                    SendKeys(default_tmux_target,
                                             SHELLAI \o <<" ", ARGV>>,
                                             enter(args.auto), ok))
                      /\ out' = Shown(ok)
                 /\ UNCHANGED keys
       ELSE UNCHANGED <<keys, sent, out>>
    /\ pc' = "put_send"
    /\ UNCHANGED <<response, command, result, args, env, status, failure>>

\* put_command: the command is typed into the target pane
PutSend ==
    /\ pc = "put_send"
    /\ \E ok \in BOOLEAN :
         /\ sent' = Append(sent, SendKeys(args.target, keys, "", ok))
         /\ out' = Shown(ok)
    /\ IF args.auto
       THEN pc' = "put_sleep" /\ status' = status
       ELSE Done
    /\ UNCHANGED <<response, command, result, args, env, keys, failure>>

\* put_command: sleep(args.delay)
PutSleep ==
    /\ pc = "put_sleep"
    /\ sent' = Append(sent, Sleep)
    /\ pc' = "put_enter"
    /\ UNCHANGED <<response, command, result, args, env, keys, out, status,
                   failure>>

\* put_command: ENTER is sent to the target pane
PutEnter ==
    /\ pc = "put_enter"
    /\ \E ok \in BOOLEAN :
         /\ sent' = Append(sent, SendKeys(args.target, <<>>, enter(args.auto), ok))
         /\ out' = Shown(ok)
    /\ Done
    /\ UNCHANGED <<response, command, result, args, env, keys, failure>>

----------------------------------------------------------------------------
(* One invocation of src/shellAI.py                                        *)

\* genai.configure(api_key=os.environ["GEMINI_API_KEY"])
LegacyGetKey ==
    /\ pc = "get_key"
    /\ args.variant = "shellAI"
    /\ Outcome(IF env.key THEN Returns(<<>>)
               ELSE Quits("need GEMINI_API_KEY environment variable",
                          "missing_credential"),
               "legacy_generate")
    /\ UNCHANGED <<response, command, result, args, env, keys, sent>>

\* the reply is fetched if there is input, else "no input" is shown
LegacyGenerate ==
    /\ pc = "legacy_generate"
    /\ IF HasInput
       THEN \E text \in ModelReplies, sdk \in {"ok", "error"} :
              LET r == IF args.debug THEN Returns(LegacyDebugReply)
                       ELSE IF sdk = "error" THEN Raises("sdk_error")
                       ELSE Returns(text)
              IN  /\ Outcome(r, "legacy_extract")
                  /\ response' = r.value
       ELSE /\ out' = out \cup {"no input"}
            /\ Done
            /\ UNCHANGED <<response, failure>>
    /\ UNCHANGED <<command, result, args, env, keys, sent>>

\* the command is extracted and the explanation shown unless terse
LegacyCommand ==
    /\ pc = "legacy_extract"
    /\ result' = legacy_extract(response)
    /\ command' = result'.value
    /\ IF result'.exc # "none"
       THEN Outcome(Raises("extract_error"), "legacy_send")
       ELSE /\ out' = IF args.quiet THEN out ELSE out \cup {"explanation"}
            /\ IF command' # <<>>
               THEN pc' = "legacy_send" /\ status' = status
               ELSE Done
            /\ failure' = failure
    /\ UNCHANGED <<response, args, env, keys, sent>>

\* the command is cleaned and typed, with ENTER under --auto
LegacySend ==
    /\ pc = "legacy_send"
    /\ keys' = legacy_clean_command(command)
                \o (IF args.recursive THEN <<";", "a", "i", " ", ARGV>>
                    ELSE <<>>)
    /\ \E ok \in BOOLEAN :
         /\ sent' = Append(sent, SendKeys(default_tmux_target, keys',
                                          enter(args.auto), ok))
         /\ out' = Shown(ok)
    /\ IF args.auto
       THEN pc' = "legacy_sleep" /\ status' = status
       ELSE Done
    /\ UNCHANGED <<response, command, result, args, env, failure>>

\* sleep(2) under --auto
LegacySleep ==
    /\ pc = "legacy_sleep"
    /\ sent' = Append(sent, Sleep)
    /\ Done
    /\ UNCHANGED <<response, command, result, args, env, keys, out, failure>>

Next ==
    \/ LegacyGetKey
    \/ LegacyGenerate
    \/ LegacyCommand
    \/ LegacySend
    \/ LegacySleep
    \/ GetKey
    \/ BuildPrompt
    \/ GetResponse
    \/ LogResponse
    \/ ExtractCommand
    \/ Display
    \/ PutCommand
    \/ PutRecursive
    \/ PutSend
    \/ PutSleep
    \/ PutEnter

Spec == Init /\ [][Next]_vars

----------------------------------------------------------------------------
(* Properties of the Command Extractor (under SpecExtract)                 *)

\* the fenced code blocks of a response as the design describes them: from
\* an opening fence and its newline to the next fence
FencedBlocks(resp) == findall(resp, FENCE)

\* whether the text holds three backticks in a row anywhere
HasFence(resp) == \E i \in 1..Len(resp) : At(resp, i, FENCE)

\* the last line of the text that is not blank, or the empty text
LastNonEmptyLine(text) ==
    LET lines == split(text)
        full == {i \in 1..Len(lines) : strip(lines[i]) # <<>>}
    IN  IF full = {} THEN <<>>
        ELSE lines[CHOOSE i \in full : \A k \in full : k <= i]

Extracted == pc \in {"extract_command", "legacy_extract"}

\* C1: for every response with at least one fenced code block the extractor
\* returns the last non-empty line of the last block, whatever comes before
\* it and however many lines the last block has
C1_LastLineOfLastBlock ==
    (Extracted /\ FencedBlocks(response) # <<>>) =>
        /\ result.exc = "none"
        /\ strip(result.value)
             = strip(LastNonEmptyLine(Last(FencedBlocks(response))))

\* C2: for every response without a fenced code block the extractor returns
\* the last non-empty line of the whole response
C2_LastLineOfResponse ==
    (Extracted /\ ~HasFence(response)) =>
        /\ result.exc = "none"
        /\ strip(result.value) = strip(LastNonEmptyLine(response))

\* C7: the extractor never raises, and the empty response gives the empty
\* command
C7_NeverRaises ==
    Extracted =>
        /\ result.exc = "none"
        /\ (response = <<>> => result.value = <<>>)

\* str.lower() on the letters used in the tags
lower(c) ==
    CASE c = "B" -> "b"
      [] c = "A" -> "a"
      [] c = "S" -> "s"
      [] c = "H" -> "h"
      [] OTHER -> c

\* the response with its letters in lower case; in the modelled responses
\* capital letters occur only in the tag of a fence
LowerCase(resp) == [i \in 1..Len(resp) |-> lower(resp[i])]

\* the first fence of the response carries a tag with capital letters and a
\* newline after it, and no other letter of the response is a capital
CapitalTagOpens(resp) ==
    /\ HasFence(resp)
    /\ LET first == CHOOSE i \in 1..Len(resp) :
                        /\ At(resp, i, FENCE)
                        /\ \A k \in 1..(i - 1) : ~At(resp, k, FENCE)
       IN  /\ \/ At(resp, first + 3, TAG_BASH_UPPER \o <<NL>>)
              \/ At(resp, first + 3, TAG_SHELL_CAPITAL \o <<NL>>)
           /\ \A i \in 1..Len(resp) :
                  resp[i] # lower(resp[i]) => i \in (first + 3)..(first + 6)

\* C11: a fence tagged bash or shell is recognised in any letter case: a
\* response whose only block is tagged BASH (or Shell) gives the same
\* command as the same response with the tag in lower case
C11_TagCaseInsensitive ==
    (/\ pc = "extract_command"
     /\ CapitalTagOpens(response)
     /\ Len(FencedBlocks(LowerCase(response))) = 1) =>
        result = extract_command(LowerCase(response))

----------------------------------------------------------------------------
(* Properties of the Command Sanitizer (under SpecClean)                   *)

\* reading left to right, a backslash takes the next character with it and
\* no other unit is a double quote, a backtick or a dollar sign
RECURSIVE Escaped(_)
Escaped(s) ==
    IF s = <<>> THEN TRUE
    ELSE IF s[1] = BS THEN Len(s) >= 2 /\ Escaped(SubSeq(s, 3, Len(s)))
    ELSE s[1] \notin {DQ, BT, DOLLAR} /\ Escaped(Tail(s))

Cleaned == pc \in {"clean_command", "legacy_clean_command"}

\* C3: the output of clean_command holds no raw newline, and every double
\* quote, backtick, dollar sign and backslash in it is escaped
C3_Sanitized ==
    Cleaned =>
        /\ \A i \in 1..Len(result.value) : result.value[i] # NL
        /\ Escaped(result.value)

C3_Witness ==
    /\ pc = "clean_command"
    /\ command = <<BS, DQ, NL, BT>>
    /\ result.value = <<BS, BS, BS, DQ, " ", BS, BT>>

----------------------------------------------------------------------------
(* Properties of an invocation (under Spec)                                *)

Ended == pc \in {"done", "exited"}

FetchFailures == {"missing_credential", "http_error", "malformed_response"}

\* the send-keys calls that carry ENTER
Enters == {i \in 1..Len(sent) : sent[i].enter = "ENTER"}

\* the cleaned command of the variant that runs
CleanedCommand ==
    IF args.variant = "shellAI" THEN legacy_clean_command(command)
    ELSE clean_command(command)

\* the send-keys calls that type the command into the target pane
CommandSends ==
    {i \in 1..Len(sent) :
        /\ sent[i].kind = "send-keys"
        /\ sent[i].pane = args.target
        /\ sent[i].text # <<>>
        /\ SubSeq(sent[i].text, 1, Len(CleanedCommand)) = CleanedCommand}

\* the reply holds a command that main would hand to put_command
Deliverable ==
    LET r == extract_command(response)
    IN  /\ r.exc = "none"
        /\ r.value # <<>>
        /\ args.quiet \/ re_compiles(r.value)

\* C4: after a failed fetch (credential missing, status other than 200, or
\* a 200 body without choices[0].message.content) nothing is ever sent to a
\* pane
C4_NoKeysAfterFailedFetch ==
    failure \in FetchFailures => sent = <<>>

C4_Witness ==
    /\ pc = "exited"
    /\ failure = "http_error"
    /\ env.key
    /\ sent = <<>>

\* C5: without --auto no ENTER is sent to any pane, and a put_command that
\* has run ends with the command typed into the target pane
C5_EnterOnlyIfAuto ==
    ~args.auto =>
        /\ Enters = {}
        /\ (pc = "done" /\ command # <<>>) =>
               /\ sent # <<>>
               /\ Len(sent) \in CommandSends
               /\ Last(sent).enter = ""

C5_Witness ==
    /\ pc = "done"
    /\ ~args.auto
    /\ args.recursive
    /\ args.target # default_tmux_target
    /\ Len(sent) = 2
    /\ Enters = {}

\* C6: with --auto no ENTER reaches any pane until the command has been
\* typed and the sleep is over (an ENTER whose send-keys call failed has
\* reached no pane)
C6_SleepBeforeEnter ==
    (args.variant = "shellai" /\ args.auto) =>
        \A i \in Enters :
            sent[i].ok =>
                \E j \in 1..(i - 1) :
                    /\ sent[j].kind = "sleep"
                    /\ \E k \in CommandSends : k < j

\* C8: if the send-keys call that types the command fails the invocation
\* stops there: nothing is sent after it, the failure is shown and the exit
\* status is not 0
C8_FailedSendIsFatal ==
    args.variant = "shellai" =>
        \A i \in CommandSends :
            ~sent[i].ok =>
                /\ i = Len(sent)
                /\ "tmux error" \in out
                /\ Ended => status # "0"

\* C9: the exit status is 0 when there is no prompt material ("no input" is
\* shown) and is not 0 when the credential is missing, the status is not
\* 200 or the 200 body lacks choices[0].message.content
C9_ExitStatus ==
    (args.variant = "shellai" /\ Ended) =>
        /\ (failure = "none" /\ ~HasInput) =>
               (status = "0" /\ "no input" \in out)
        /\ (failure \in FetchFailures /\ HasInput) => status # "0"

\* C10: when writing a configured log file fails the response is still
\* returned, the command still extracted and typed into the pane, and the
\* error shown
C10_LogFailureNotFatal ==
    (Ended /\ failure \in {"log_error", "log_commands_error"}) =>
        /\ "Traceback" \in out
        /\ Deliverable =>
               /\ result = extract_command(response)
               /\ CommandSends # {}

----------------------------------------------------------------------------
(* The repeat invocation (under Spec)                                      *)

\* the send-keys calls that type text
TextSends == {i \in 1..Len(sent) : sent[i].kind = "send-keys" /\ sent[i].text # <<>>}

\* the name the running variant is called by
ToolName == IF args.variant = "shellAI" THEN <<"a", "i">> ELSE SHELLAI

\* the tool called again with the original arguments
RepeatInvocation == ToolName \o <<" ", ARGV>>

\* whether the text holds the original arguments
HoldsArgv(text) == \E i \in 1..Len(text) : text[i] = ARGV

\* put_command (or the legacy send) has run to its end
Delivered == pc = "done" /\ command # <<>>

\* C12: with --recursive and the invoking pane as target one command string
\* is sent, the cleaned command followed by the repeat invocation; with
\* another pane as target the repeat invocation is sent to the invoking pane
\* first and the cleaned command alone to the target; without --recursive
\* no repeat invocation is sent anywhere
C12_RepeatInvocation ==
    /\ ~args.recursive => \A i \in 1..Len(sent) : ~HoldsArgv(sent[i].text)
    /\ Delivered =>
         IF ~args.recursive
         THEN /\ TextSends = {1}
              /\ sent[1].pane = args.target
              /\ sent[1].text = CleanedCommand
         ELSE IF args.target = default_tmux_target
         THEN /\ TextSends = {1}
              /\ sent[1].pane = args.target
              /\ sent[1].text = CleanedCommand \o <<";">> \o RepeatInvocation
         ELSE /\ TextSends = {1, 2}
              /\ sent[1].pane = default_tmux_target
              /\ sent[1].text = RepeatInvocation
              /\ sent[2].pane = args.target
              /\ sent[2].text = CleanedCommand

C12_Witness ==
    /\ Delivered
    /\ args.recursive
    /\ args.auto
    /\ args.target # default_tmux_target
    /\ Len(sent) = 4
    /\ sent[1].text = SHELLAI \o <<" ", ARGV>>
    /\ sent[2].text = CleanedCommand

====
